---- MODULE Spec2Model ----
(***************************************************************************)
(* Model of the G-code verification pass of verify.py                      *)
(* (step_3_analyze_gcode): a single forward scan over the lines of         *)
(* plate_1.gcode that tracks the current height and the current feature    *)
(* type and records the heights at which sparse infill is extruded above   *)
(* Z_THRESHOLD.                                                            *)
(*                                                                         *)
(* Text is modelled as sequences of one-character strings, so that strip,  *)
(* split, startswith, substring search, the regular expression and float() *)
(* are computed the way the Python code computes them.                     *)
(* Heights and extrusion amounts are fixed-point numbers in tenths         *)
(* (25.0 is 250); every numeral of the line alphabet has at most one       *)
(* fractional digit, so the representation is exact.                       *)
(***************************************************************************)
EXTENDS Integers, Sequences, FiniteSets, TLC

\* Longest stream (number of lines) the scan reads.
MaxLines == 4

\* Longest stream of the lines DiagLines.
MaxDiagLines == 6

\* Longest stream the scan reads when it runs as step 3 of main.
MaxMainLines == 2

\* Z_THRESHOLD = 20.0, in tenths.
Z_THRESHOLD == 200

\* "if len(bad_layers) < 5": a FAILURE line is printed while the list is
\* shorter than this.
PrintLimit == 5

\* "bad_layers[:10]": the summary shows at most this many heights.
SummaryLimit == 10

(***************************************************************************)
(* Text helpers (Python str methods and the re / float built-ins).         *)
(***************************************************************************)

\* Characters str.strip() and str.split() treat as whitespace.
IsSpace(c) == c \in {" ", "\t", "\n", "\r"}

RECURSIVE LStrip(_)
LStrip(s) ==
    IF s # <<>> /\ IsSpace(Head(s)) THEN LStrip(Tail(s)) ELSE s

RECURSIVE RStrip(_)
RStrip(s) ==
    IF s # <<>> /\ IsSpace(s[Len(s)]) THEN RStrip(SubSeq(s, 1, Len(s) - 1)) ELSE s

\* str.strip()
Strip(s) == RStrip(LStrip(s))

\* str.startswith(p)
StartsWith(s, p) == Len(s) >= Len(p) /\ SubSeq(s, 1, Len(p)) = p

\* sub in s
Contains(s, sub) ==
    \E i \in 1..(Len(s) - Len(sub) + 1) : SubSeq(s, i, i + Len(sub) - 1) = sub

\* bool(s) of a str: the empty string is false, any other string is true.
Truthy(s) == s # <<>>

\* Index of the first occurrence of the character d in s, or Len(s) + 1.
FirstSep(s, d) ==
    IF \E i \in 1..Len(s) : s[i] = d
    THEN CHOOSE i \in 1..Len(s) : s[i] = d /\ \A j \in 1..(i - 1) : s[j] # d
    ELSE Len(s) + 1

\* str.split(d) for a one-character separator d (empty pieces are kept).
RECURSIVE Split(_, _)
Split(s, d) ==
    LET i == FirstSep(s, d) IN
    IF i > Len(s) THEN <<s>>
    ELSE <<SubSeq(s, 1, i - 1)>> \o Split(SubSeq(s, i + 1, Len(s)), d)

FirstSpace(s) ==
    IF \E i \in 1..Len(s) : IsSpace(s[i])
    THEN CHOOSE i \in 1..Len(s) : IsSpace(s[i]) /\ \A j \in 1..(i - 1) : ~IsSpace(s[j])
    ELSE Len(s) + 1

\* str.split() with no argument: pieces between runs of whitespace.
RECURSIVE SplitWS(_)
SplitWS(s) ==
    LET t == LStrip(s) IN
    IF t = <<>> THEN <<>>
    ELSE LET j == FirstSpace(t) IN
         <<SubSeq(t, 1, j - 1)>> \o SplitWS(SubSeq(t, j, Len(t)))

Digits == {"0", "1", "2", "3", "4", "5", "6", "7", "8", "9"}

DigitVal ==
    ("0" :> 0) @@ ("1" :> 1) @@ ("2" :> 2) @@ ("3" :> 3) @@ ("4" :> 4) @@
    ("5" :> 5) @@ ("6" :> 6) @@ ("7" :> 7) @@ ("8" :> 8) @@ ("9" :> 9)

AllDigits(s) == \A i \in 1..Len(s) : s[i] \in Digits

\* Value of a run of decimal digits.
RECURSIVE DecVal(_)
DecVal(s) ==
    IF s = <<>> THEN 0 ELSE 10 * DecVal(SubSeq(s, 1, Len(s) - 1)) + DigitVal[s[Len(s)]]

\* Unsigned decimal numeral: digits, optionally a point and more digits,
\* with at least one digit overall.
ParseUnsigned(s) ==
    LET p    == FirstSep(s, ".")
        ip   == SubSeq(s, 1, p - 1)
        fp   == SubSeq(s, p + 1, Len(s))
        ok   == AllDigits(ip) /\ AllDigits(fp) /\ Len(ip) + Len(fp) > 0
        frac == IF fp = <<>> THEN 0 ELSE DigitVal[fp[1]]
    IN  IF ok THEN [ok |-> TRUE, val |-> 10 * DecVal(ip) + frac]
        ELSE [ok |-> FALSE, val |-> 0]

\* float(s): ok is FALSE where Python raises ValueError.  Surrounding
\* whitespace is accepted, then an optional sign and a decimal numeral.
\* (Exponents, inf, nan and digit separators do not occur in the alphabet.)
ParseFloat(s) ==
    LET t == Strip(s) IN
    IF t = <<>> THEN [ok |-> FALSE, val |-> 0]
    ELSE IF Head(t) = "-"
         THEN LET r == ParseUnsigned(Tail(t)) IN [ok |-> r.ok, val |-> 0 - r.val]
    ELSE IF Head(t) = "+" THEN ParseUnsigned(Tail(t))
    ELSE ParseUnsigned(t)

\* Characters of the class [0-9\.]
NumChars == Digits \cup {"."}

\* Length of the longest prefix of s made of NumChars.
RECURSIVE NumRun(_)
NumRun(s) ==
    IF s # <<>> /\ Head(s) \in NumChars THEN 1 + NumRun(Tail(s)) ELSE 0

\* re.search(r"E([0-9\.]+)", s): the leftmost "E" followed by at least one
\* character of the class; group is the greedy run after it.
ReSearchE(s) ==
    LET hits == {i \in 1..(Len(s) - 1) : s[i] = "E" /\ s[i + 1] \in NumChars} IN
    IF hits = {} THEN [found |-> FALSE, group |-> <<>>]
    ELSE LET i == CHOOSE k \in hits : \A m \in hits : k <= m
             rest == SubSeq(s, i + 1, Len(s))
         IN  [found |-> TRUE, group |-> SubSeq(rest, 1, NumRun(rest))]

(***************************************************************************)
(* The line alphabet: the raw lines (with their line terminator) a         *)
(* toolpath file is made of in this model.                                 *)
(***************************************************************************)

\* ;TYPE:Sparse infill
L_TypeSparse ==
    <<";", "T", "Y", "P", "E", ":", "S", "p", "a", "r", "s", "e", " ", "i", "n", "f", "i", "l", "l", "\n">>

\* ;TYPE:Internal solid infill
L_TypeSolid ==
    <<";", "T", "Y", "P", "E", ":", "I", "n", "t", "e", "r", "n", "a", "l", " ", "s", "o", "l", "i", "d", " ", "i", "n", "f", "i", "l", "l", "\n">>

\* ;TYPE:sparse infill
L_TypeLower ==
    <<";", "T", "Y", "P", "E", ":", "s", "p", "a", "r", "s", "e", " ", "i", "n", "f", "i", "l", "l", "\n">>

\* ;Z:25.0
L_Z25 ==
    <<";", "Z", ":", "2", "5", ".", "0", "\n">>

\* ;Z:20.0
L_Z20 ==
    <<";", "Z", ":", "2", "0", ".", "0", "\n">>

\* ;Z:abc
L_ZBad ==
    <<";", "Z", ":", "a", "b", "c", "\n">>

\* G1 X10 Zoops
L_G1ZBad ==
    <<"G", "1", " ", "X", "1", "0", " ", "Z", "o", "o", "p", "s", "\n">>

\* G1 X1 Y1 E1.0
L_E1 ==
    <<"G", "1", " ", "X", "1", " ", "Y", "1", " ", "E", "1", ".", "0", "\n">>

\* G1 X1 Y1 E0
L_E0 ==
    <<"G", "1", " ", "X", "1", " ", "Y", "1", " ", "E", "0", "\n">>

\* G1 X1 Y1 E0.0
L_E00 ==
    <<"G", "1", " ", "X", "1", " ", "Y", "1", " ", "E", "0", ".", "0", "\n">>

\* G1 X1 Y1 E-1.0
L_ENeg ==
    <<"G", "1", " ", "X", "1", " ", "Y", "1", " ", "E", "-", "1", ".", "0", "\n">>

\* G1 Z30.0 E1.0
L_Z30E1 ==
    <<"G", "1", " ", "Z", "3", "0", ".", "0", " ", "E", "1", ".", "0", "\n">>

\* ;TYPE:Sparse infill:x
L_TypeColon ==
    <<";", "T", "Y", "P", "E", ":", "S", "p", "a", "r", "s", "e", " ", "i", "n", "f", "i", "l", "l", ":", "x", "\n">>

Lines ==
    {L_TypeSparse, L_TypeSolid, L_TypeLower, L_Z25, L_Z20, L_ZBad, L_G1ZBad,
     L_E1, L_E0, L_E00, L_ENeg, L_Z30E1, L_TypeColon}

\* G1 Z21.0 E1.0
L_Z21E1 ==
    <<"G", "1", " ", "Z", "2", "1", ".", "0", " ", "E", "1", ".", "0", "\n">>

\* G1 Z22.0 E1.0
L_Z22E1 ==
    <<"G", "1", " ", "Z", "2", "2", ".", "0", " ", "E", "1", ".", "0", "\n">>

\* G1 Z23.0 E1.0
L_Z23E1 ==
    <<"G", "1", " ", "Z", "2", "3", ".", "0", " ", "E", "1", ".", "0", "\n">>

\* G1 Z24.0 E1.0
L_Z24E1 ==
    <<"G", "1", " ", "Z", "2", "4", ".", "0", " ", "E", "1", ".", "0", "\n">>

\* G1 Z25.0 E1.0
L_Z25E1 ==
    <<"G", "1", " ", "Z", "2", "5", ".", "0", " ", "E", "1", ".", "0", "\n">>

\* The lines of a file that declares sparse infill and extrudes at five
\* distinct heights above the threshold.
DiagLines ==
    {L_TypeSparse, L_Z21E1, L_Z22E1, L_Z23E1, L_Z24E1, L_Z25E1}

(***************************************************************************)
(* The loop body of step_3_analyze_gcode.                                  *)
(***************************************************************************)

\* The label compared against current_type.
SPARSE_INFILL ==
    <<"S", "p", "a", "r", "s", "e", " ", "i", "n", "f", "i", "l", "l">>

\* current_type = None.  A one-element sequence whose element is not a
\* single character, so that it differs from every label read from a file.
NoType == <<"None">>

\* Variant of TrackZComment: a payload float rejects resets the height.
TrackZComment_Reset(cz, line) ==
    LET r == ParseFloat(Split(line, ":")[2]) IN
    IF r.ok THEN r.val ELSE 0

\* Variant of TrackZComment: the height only ever rises.
TrackZComment_Monotone(cz, line) ==
    LET r == ParseFloat(Split(line, ":")[2]) IN
    IF r.ok /\ r.val > cz THEN r.val ELSE cz

\* ";Z:" comment: current_z = float(line.split(":")[1]), unchanged when
\* float raises.
TrackZComment(cz, line) ==
    LET r == ParseFloat(Split(line, ":")[2]) IN
    IF r.ok THEN r.val ELSE cz

\* for p in parts: if p.startswith("Z"): current_z = float(p[1:]), each
\* token that float rejects being skipped.
RECURSIVE TrackG1Z(_, _)
TrackG1Z(cz, parts) ==
    IF parts = <<>> THEN cz
    ELSE LET p == Head(parts)
             next == IF StartsWith(p, <<"Z">>) /\ ParseFloat(Tail(p)).ok
                     THEN ParseFloat(Tail(p)).val
                     ELSE cz
         IN  TrackG1Z(next, Tail(parts))

\* current_type = line.split(":")[1]
FeatureLabel(line) == Split(line, ":")[2]

\* "E" in line and not "E0" in line and not "E-."
CrudeCheck(line) ==
    /\ Contains(line, <<"E">>)
    /\ ~Contains(line, <<"E", "0">>)
    /\ ~Truthy(<<"E", "-", ".">>)

\* The body guarded by the crude check: parse the E value and record the
\* height once.  raised is TRUE where float() raises out of the loop, print
\* is TRUE where the FAILURE line is printed.
RecordIfPositive(cz, line, bl, hb) ==
    LET m == ReSearchE(line) IN
    IF ~m.found
    THEN [bad_layers |-> bl, has_bad_infill |-> hb, raised |-> FALSE,
          print |-> FALSE]
    ELSE LET v == ParseFloat(m.group) IN
         IF ~v.ok
         THEN [bad_layers |-> bl, has_bad_infill |-> hb, raised |-> TRUE,
               print |-> FALSE]
         ELSE IF v.val > 0 /\ ~(\E i \in 1..Len(bl) : bl[i] = cz)
              THEN [bad_layers |-> Append(bl, cz), has_bad_infill |-> TRUE,
                    raised |-> FALSE,
                    print |-> Len(Append(bl, cz)) < PrintLimit]
              ELSE [bad_layers |-> bl, has_bad_infill |-> hb, raised |-> FALSE,
                    print |-> FALSE]

\* The crude check as it reads with the last literal tested against the
\* line ('not "E-." in line'); used by the variants of CheckInfill below.
CrudeCheckIn(line) ==
    /\ Contains(line, <<"E">>)
    /\ ~Contains(line, <<"E", "0">>)
    /\ ~Contains(line, <<"E", "-", ".">>)

NoChange(bl, hb) ==
    [bad_layers |-> bl, has_bad_infill |-> hb, raised |-> FALSE,
     print |-> FALSE]

\* Variant of CheckInfill: the feature label is not tested.
CheckInfill_AnyFeature(ct, cz, line, bl, hb) ==
    IF cz > Z_THRESHOLD /\ CrudeCheckIn(line)
    THEN RecordIfPositive(cz, line, bl, hb)
    ELSE NoChange(bl, hb)

\* Variant of CheckInfill: the height test is >= instead of >.
CheckInfill_AtThreshold(ct, cz, line, bl, hb) ==
    IF ct = SPARSE_INFILL /\ cz >= Z_THRESHOLD /\ CrudeCheckIn(line)
    THEN RecordIfPositive(cz, line, bl, hb)
    ELSE NoChange(bl, hb)

\* Variant of CheckInfill: the extrusion amount is not tested, every line
\* in the danger zone records its height.
CheckInfill_NoExtrusionTest(ct, cz, line, bl, hb) ==
    IF ct = SPARSE_INFILL /\ cz > Z_THRESHOLD
    THEN [bad_layers |-> IF \E i \in 1..Len(bl) : bl[i] = cz THEN bl
                         ELSE Append(bl, cz),
          has_bad_infill |-> TRUE, raised |-> FALSE, print |-> FALSE]
    ELSE NoChange(bl, hb)

\* Variant of CheckInfill: the height is appended without the
\* "not in bad_layers" test.
CheckInfill_NoDedup(ct, cz, line, bl, hb) ==
    IF /\ ct = SPARSE_INFILL /\ cz > Z_THRESHOLD /\ CrudeCheckIn(line)
       /\ ReSearchE(line).found
       /\ ParseFloat(ReSearchE(line).group).ok
       /\ ParseFloat(ReSearchE(line).group).val > 0
    THEN [bad_layers |-> Append(bl, cz), has_bad_infill |-> TRUE,
          raised |-> FALSE, print |-> FALSE]
    ELSE NoChange(bl, hb)

\* The sparse-infill check applied to a line that is neither a ";Z:" nor a
\* ";TYPE:" comment.
CheckInfill(ct, cz, line, bl, hb) ==
    IF ct = SPARSE_INFILL /\ cz > Z_THRESHOLD /\ CrudeCheck(line)
    THEN RecordIfPositive(cz, line, bl, hb)
    ELSE [bad_layers |-> bl, has_bad_infill |-> hb, raised |-> FALSE,
          print |-> FALSE]

\* Variant of ProcessOne: a ";Z:" comment also clears current_type.
ProcessOne_ClearsType(s, raw) ==
    LET line == Strip(raw) IN
    IF StartsWith(line, <<";", "Z", ":">>)
    THEN [s EXCEPT !.current_z = TrackZComment(s.current_z, line),
                   !.current_type = NoType]
    ELSE LET z1 == IF StartsWith(line, <<"G", "1">>) /\ Contains(line, <<"Z">>)
                   THEN TrackG1Z(s.current_z, SplitWS(line))
                   ELSE s.current_z
         IN  IF StartsWith(line, <<";", "T", "Y", "P", "E", ":">>)
             THEN [s EXCEPT !.current_z = z1, !.current_type = FeatureLabel(line)]
             ELSE LET c == CheckInfill(s.current_type, z1, line,
                                       s.bad_layers, s.has_bad_infill)
                  IN  [s EXCEPT !.current_z = z1,
                                !.bad_layers = c.bad_layers,
                                !.has_bad_infill = c.has_bad_infill,
                                !.raised = c.raised,
                                !.checked = Append(s.checked, z1),
                                !.printed = IF c.print
                                            THEN Append(s.printed, z1)
                                            ELSE s.printed]

\* Variant of ProcessOne: the Z token of a G1 line is tracked after the
\* sparse-infill check instead of before it.
ProcessOne_ChecksOldHeight(s, raw) ==
    LET line == Strip(raw) IN
    IF StartsWith(line, <<";", "Z", ":">>)
    THEN [s EXCEPT !.current_z = TrackZComment(s.current_z, line)]
    ELSE LET z1 == IF StartsWith(line, <<"G", "1">>) /\ Contains(line, <<"Z">>)
                   THEN TrackG1Z(s.current_z, SplitWS(line))
                   ELSE s.current_z
         IN  IF StartsWith(line, <<";", "T", "Y", "P", "E", ":">>)
             THEN [s EXCEPT !.current_z = z1, !.current_type = FeatureLabel(line)]
             ELSE LET c == CheckInfill(s.current_type, s.current_z, line,
                                       s.bad_layers, s.has_bad_infill)
                  IN  [s EXCEPT !.current_z = z1,
                                !.bad_layers = c.bad_layers,
                                !.has_bad_infill = c.has_bad_infill,
                                !.raised = c.raised,
                                !.checked = Append(s.checked, s.current_z),
                                !.printed = IF c.print
                                            THEN Append(s.printed, s.current_z)
                                            ELSE s.printed]

\* One iteration of "for line in f" on the raw line, from the locals s.
\* checked gains the value current_z has when the sparse-infill test is
\* evaluated, printed the height of each FAILURE line.
ProcessOne(s, raw) ==
    LET line == Strip(raw) IN
    IF StartsWith(line, <<";", "Z", ":">>)
    THEN [s EXCEPT !.current_z = TrackZComment(s.current_z, line)]
    ELSE LET z1 == IF StartsWith(line, <<"G", "1">>) /\ Contains(line, <<"Z">>)
                   THEN TrackG1Z(s.current_z, SplitWS(line))
                   ELSE s.current_z
         IN  IF StartsWith(line, <<";", "T", "Y", "P", "E", ":">>)
             THEN [s EXCEPT !.current_z = z1, !.current_type = FeatureLabel(line)]
             ELSE LET c == CheckInfill(s.current_type, z1, line,
                                       s.bad_layers, s.has_bad_infill)
                  IN  [s EXCEPT !.current_z = z1,
                                !.bad_layers = c.bad_layers,
                                !.has_bad_infill = c.has_bad_infill,
                                !.raised = c.raised,
                                !.checked = Append(s.checked, z1),
                                !.printed = IF c.print
                                            THEN Append(s.printed, z1)
                                            ELSE s.printed]

(***************************************************************************)
(* State of one call of step_3_analyze_gcode.                              *)
(*   pc              "idle" while the function is not running, "start"     *)
(*                   before the existence test, "scan" inside the loop,    *)
(*                   "done" once the function has returned                 *)
(*   current_z, current_type, bad_layers, has_bad_infill   the locals      *)
(*   result          the returned value ("none" until the return)          *)
(*   exit            the return statement taken: "missing" (file not       *)
(*                   found), "error" (the except clause), "failed" and     *)
(*                   "passed" (the two verdicts)                           *)
(*   printed         the heights of the FAILURE lines printed so far       *)
(*   summary         the heights listed by the closing FAILED message      *)
(*   read            history: the raw lines consumed so far                *)
(*   checked         history: for every line that reached the              *)
(*                   sparse-infill test, the value current_z had there     *)
(*   violating       history: for every line consumed while the feature    *)
(*                   was "Sparse infill" and the height above the          *)
(*                   threshold and that carries a token E<v> with v > 0,   *)
(*                   the height at which it was consumed                   *)
(* State of main and of step_2_generate_gcode.                             *)
(*   mpc             position in main: "off" (main is not running),        *)
(*                   "step1", "s2_extract", "s2_build", "s2_run",          *)
(*                   "gcode_test", "step3", "exited"                       *)
(*   step1_ok, step2_ok   what the two steps returned ("none" before)      *)
(*   bin_gcode       what os.path.exists(GCODE_FILE) returned              *)
(*   configs         the value of extract_and_prepare_configs              *)
(*   cmd             the slicer command line being built                   *)
(*   exit_code       the exit status of the process ("none" while it runs) *)
(*   ended           how the process ended: "sys.exit", "traceback" (an    *)
(*                   uncaught exception) or "returned"                     *)
(*   success         "Verification Successful!" was printed                *)
(***************************************************************************)
VARIABLES pc, current_z, current_type, bad_layers, has_bad_infill,
          result, exit, printed, summary, read, checked, violating,
          mpc, step1_ok, step2_ok, bin_gcode, configs, cmd,
          exit_code, ended, success

scanvars == <<pc, current_z, current_type, bad_layers, has_bad_infill,
              result, exit, printed, summary, read, checked, violating>>

mainvars == <<mpc, step1_ok, step2_ok, bin_gcode, configs, cmd,
              exit_code, ended, success>>

vars == <<pc, current_z, current_type, bad_layers, has_bad_infill,
          result, exit, printed, summary, read, checked, violating,
          mpc, step1_ok, step2_ok, bin_gcode, configs, cmd,
          exit_code, ended, success>>

\* A space-separated token "E<v>" of the line with float(v) > 0.
CarriesPositiveE(raw) ==
    LET parts == SplitWS(Strip(raw)) IN
    \E i \in 1..Len(parts) :
        /\ StartsWith(parts[i], <<"E">>)
        /\ ParseFloat(Tail(parts[i])).ok
        /\ ParseFloat(Tail(parts[i])).val > 0

\* The lines of the alphabets that carry such a token.
PositiveELines == {l \in Lines \cup DiagLines : CarriesPositiveE(l)}

\* None, as the value of a config path or of extract_and_prepare_configs.
NONE == "<None>"

NoConfigs == [kind |-> "unset", machine |-> NONE, process |-> NONE,
              filament |-> NONE]

\* The locals as they are set before the file is opened.
ScanInit ==
    /\ has_bad_infill = FALSE
    /\ current_z = 0
    /\ current_type = NoType
    /\ bad_layers = <<>>
    /\ result = "none"
    /\ exit = "none"
    /\ printed = <<>>
    /\ summary = <<>>
    /\ read = <<>>
    /\ checked = <<>>
    /\ violating = <<>>

MainInit ==
    /\ step1_ok = "none"
    /\ step2_ok = "none"
    /\ bin_gcode = "none"
    /\ configs = NoConfigs
    /\ cmd = <<>>
    /\ exit_code = "none"
    /\ ended = "none"
    /\ success = FALSE

\* step_3_analyze_gcode called on its own.
Init ==
    /\ pc = "start"
    /\ mpc = "off"
    /\ ScanInit
    /\ MainInit

\* Variant of Verdict: the two branches swapped.
Verdict_Swapped(hb) == IF hb THEN "True" ELSE "False"

\* if has_bad_infill: return False   else: return True
Verdict(hb) == IF hb THEN "False" ELSE "True"

\* Variant of FileMissing: the missing file is reported as success.
FileMissing_ReturnsTrue ==
    /\ pc = "start"
    /\ pc' = "done"
    /\ result' = "True"
    /\ exit' = "missing"
    /\ UNCHANGED <<current_z, current_type, bad_layers, has_bad_infill,
                   printed, summary, read, checked, violating>>
    /\ UNCHANGED mainvars

\* if not os.path.exists(gcode_file): return False
FileMissing ==
    /\ pc = "start"
    /\ pc' = "done"
    /\ result' = "False"
    /\ exit' = "missing"
    /\ UNCHANGED <<current_z, current_type, bad_layers, has_bad_infill,
                   printed, summary, read, checked, violating>>
    /\ UNCHANGED mainvars

\* The file exists and open() succeeds.
OpenFile ==
    /\ pc = "start"
    /\ pc' = "scan"
    /\ UNCHANGED <<current_z, current_type, bad_layers, has_bad_infill,
                   result, exit, printed, summary, read, checked, violating>>
    /\ UNCHANGED mainvars

\* The file exists but open() raises: except Exception -> return False
OpenFails ==
    /\ pc = "start"
    /\ pc' = "done"
    /\ result' = "False"
    /\ exit' = "error"
    /\ UNCHANGED <<current_z, current_type, bad_layers, has_bad_infill,
                   printed, summary, read, checked, violating>>
    /\ UNCHANGED mainvars

\* The next line of the file, one of the lines A, is read and the loop body
\* runs on it; the file has at most max lines.
ProcessLineFrom(A, max) ==
    /\ pc = "scan"
    /\ Len(read) < max
    /\ \E raw \in A :
         LET s == [current_z |-> current_z, current_type |-> current_type,
                   bad_layers |-> bad_layers, has_bad_infill |-> has_bad_infill,
                   raised |-> FALSE, checked |-> checked, printed |-> printed]
             t == ProcessOne(s, raw)
         IN  /\ current_z' = t.current_z
             /\ current_type' = t.current_type
             /\ bad_layers' = t.bad_layers
             /\ has_bad_infill' = t.has_bad_infill
             /\ checked' = t.checked
             /\ printed' = t.printed
             /\ read' = Append(read, raw)
             /\ violating' =
                  IF /\ t.current_type = SPARSE_INFILL
                     /\ t.current_z > Z_THRESHOLD
                     /\ raw \in PositiveELines
                  THEN Append(violating, t.current_z)
                  ELSE violating
             /\ IF t.raised
                THEN pc' = "done" /\ result' = "False" /\ exit' = "error"
                ELSE pc' = "scan" /\ UNCHANGED <<result, exit>>
    /\ UNCHANGED summary
    /\ UNCHANGED mainvars

\* The next line of the file is read and the loop body runs on it.
ProcessLine == ProcessLineFrom(Lines, MaxLines)

\* Variant of ReadFails: the error ends the loop and the lines read so far
\* decide the verdict.
ReadFails_PartialVerdict ==
    /\ pc = "scan"
    /\ pc' = "done"
    /\ result' = Verdict(has_bad_infill)
    /\ exit' = "error"
    /\ UNCHANGED <<current_z, current_type, bad_layers, has_bad_infill,
                   printed, summary, read, checked, violating>>
    /\ UNCHANGED mainvars

\* Reading the next line raises (the stream is closed or cannot be
\* decoded): except Exception -> return False
ReadFails ==
    /\ pc = "scan"
    /\ pc' = "done"
    /\ result' = "False"
    /\ exit' = "error"
    /\ UNCHANGED <<current_z, current_type, bad_layers, has_bad_infill,
                   printed, summary, read, checked, violating>>
    /\ UNCHANGED mainvars

\* bad_layers[:10]
Shown(bl) == SubSeq(bl, 1, IF Len(bl) < SummaryLimit THEN Len(bl) ELSE SummaryLimit)

\* The stream is exhausted and the verdict is returned; the FAILED message
\* lists the first heights of bad_layers.
EndOfStream ==
    /\ pc = "scan"
    /\ pc' = "done"
    /\ result' = Verdict(has_bad_infill)
    /\ exit' = IF has_bad_infill THEN "failed" ELSE "passed"
    /\ summary' = IF has_bad_infill THEN Shown(bad_layers) ELSE <<>>
    /\ UNCHANGED <<current_z, current_type, bad_layers, has_bad_infill,
                   printed, read, checked, violating>>
    /\ UNCHANGED mainvars

Next ==
    \/ FileMissing
    \/ OpenFile
    \/ OpenFails
    \/ ProcessLine
    \/ ReadFails
    \/ EndOfStream

Spec == Init /\ [][Next]_vars

(***************************************************************************)
(* The scan over streams of extrusion lines at five distinct heights above *)
(* the threshold, long enough to pass the limit on FAILURE lines.          *)
(***************************************************************************)

\* The next line of such a file is read.
ProcessLineDiag == ProcessLineFrom(DiagLines, MaxDiagLines)

NextDiag ==
    \/ FileMissing
    \/ OpenFile
    \/ OpenFails
    \/ ProcessLineDiag
    \/ ReadFails
    \/ EndOfStream

SpecDiag == Init /\ [][NextDiag]_vars

(***************************************************************************)
(* main, step_1_generate_stl, step_2_generate_gcode and the functions it   *)
(* calls.  The external programs, the archive and the files on disk are    *)
(* the environment: what they return is chosen freely.                     *)
(***************************************************************************)

ORCA_BIN == "/Applications/OrcaSlicer.app/Contents/MacOS/OrcaSlicer"
STL_FILE == "bin.stl"

\* The *.json files an archive may hold under printer/ and filament/.
PrinterFiles == {"printer/a1.json", "printer/x1.json"}
FilamentFiles == {"filament/pla.json", "filament/Petg hf.json", "filament/abs.json"}

\* os.path.basename of the filament files, as characters.
BaseName ==
    [f \in FilamentFiles |->
        CASE f = "filament/pla.json" -> <<"p", "l", "a", ".", "j", "s", "o", "n">>
          [] f = "filament/Petg hf.json" ->
                 <<"P", "e", "t", "g", " ", "h", "f", ".", "j", "s", "o", "n">>
          [] f = "filament/abs.json" -> <<"a", "b", "s", ".", "j", "s", "o", "n">>]

LowerCase ==
    <<"a", "b", "c", "d", "e", "f", "g", "h", "i", "j", "k", "l", "m",
      "n", "o", "p", "q", "r", "s", "t", "u", "v", "w", "x", "y", "z">>
UpperCase ==
    <<"A", "B", "C", "D", "E", "F", "G", "H", "I", "J", "K", "L", "M",
      "N", "O", "P", "Q", "R", "S", "T", "U", "V", "W", "X", "Y", "Z">>

\* str.upper()
Upper(t) ==
    [i \in 1..Len(t) |->
        IF \E k \in 1..26 : LowerCase[k] = t[i]
        THEN UpperCase[CHOOSE k \in 1..26 : LowerCase[k] = t[i]]
        ELSE t[i]]

\* petg_files = [f for f in filaments if "PETG" in os.path.basename(f).upper()]
PetgFiles(filaments) ==
    {f \in filaments : Contains(Upper(BaseName[f]), <<"P", "E", "T", "G">>)}

\* prepare_configs: the paths chosen for an archive holding the given
\* printer and filament files (glob may list them in any order), minimal
\* telling whether minimal_config.json is "absent", "usable", or present
\* but raising when it is patched ("unwritable").
PreparedConfigs(printers, filaments, minimal) ==
    {[kind |-> "paths", machine |-> m, process |-> pr, filament |-> f] :
        m \in (IF printers = {} THEN {NONE} ELSE printers),
        f \in (IF filaments = {} THEN {NONE}
               ELSE IF PetgFiles(filaments) # {} THEN PetgFiles(filaments)
               ELSE filaments),
        pr \in (IF minimal = "usable" THEN {"minimal_config.json"} ELSE {NONE})}

\* cmd as step_2_generate_gcode builds it from configs.
BuildCmd(c) ==
    LET base == <<ORCA_BIN, "--slice", "0", "--no-check">>
        mach == IF c.kind = "none" \/ c.machine = NONE THEN <<>>
                ELSE <<"--load-settings", c.machine>>
        proc == IF c.kind = "none" \/ c.process = NONE THEN <<>>
                ELSE <<"--load-settings", c.process,
                       "--load-filaments", c.filament>>
    IN  base \o mach \o proc \o <<"--outputdir", ".", STL_FILE>>

\* The process ends with an uncaught exception: traceback, exit status 1.
Crash ==
    /\ mpc' = "exited"
    /\ exit_code' = "1"
    /\ ended' = "traceback"

\* sys.exit(1)
SysExit1 ==
    /\ mpc' = "exited"
    /\ exit_code' = "1"
    /\ ended' = "sys.exit"

\* main is started.
InitMain ==
    /\ pc = "idle"
    /\ mpc = "step1"
    /\ ScanInit
    /\ MainInit

\* step_1_generate_stl returns True.
Step1Ok ==
    /\ mpc = "step1"
    /\ step1_ok' = "True"
    /\ mpc' = "s2_extract"
    /\ UNCHANGED <<step2_ok, bin_gcode, configs, cmd, exit_code, ended, success>>
    /\ UNCHANGED scanvars

\* Variant of Step1Fails: main goes on after a failed step 1.
Step1Fails_GoesOn ==
    /\ mpc = "step1"
    /\ step1_ok' = "False"
    /\ mpc' = "s2_extract"
    /\ UNCHANGED <<step2_ok, bin_gcode, configs, cmd, exit_code, ended, success>>
    /\ UNCHANGED scanvars

\* OpenSCAD exits non-zero: run_command returns False, main calls sys.exit(1).
Step1Fails ==
    /\ mpc = "step1"
    /\ step1_ok' = "False"
    /\ SysExit1
    /\ UNCHANGED <<step2_ok, bin_gcode, configs, cmd, success>>
    /\ UNCHANGED scanvars

\* subprocess.run raises something other than CalledProcessError (the
\* program is not installed): nothing catches it.
Step1Raises ==
    /\ mpc = "step1"
    /\ Crash
    /\ UNCHANGED <<step1_ok, step2_ok, bin_gcode, configs, cmd, success>>
    /\ UNCHANGED scanvars

\* extract_and_prepare_configs returns None: ORCA_CONFIG does not exist, or
\* it is not a zip archive (zipfile.BadZipFile).
S2_ReturnsNone ==
    /\ mpc = "s2_extract"
    /\ configs' = [NoConfigs EXCEPT !.kind = "none"]
    /\ mpc' = "s2_build"
    /\ UNCHANGED <<step1_ok, step2_ok, bin_gcode, cmd, exit_code, ended, success>>
    /\ UNCHANGED scanvars

\* ORCA_CONFIG names a .json file: {"manual": config_path} is returned.
S2_ManualJson ==
    /\ mpc = "s2_extract"
    /\ configs' = [NoConfigs EXCEPT !.kind = "manual"]
    /\ mpc' = "s2_build"
    /\ UNCHANGED <<step1_ok, step2_ok, bin_gcode, cmd, exit_code, ended, success>>
    /\ UNCHANGED scanvars

\* The archive is extracted and prepare_configs returns its dict.
S2_PrepareConfigs ==
    /\ mpc = "s2_extract"
    /\ \E printers \in SUBSET PrinterFiles, filaments \in SUBSET FilamentFiles,
          minimal \in {"absent", "usable", "unwritable"} :
          configs' \in PreparedConfigs(printers, filaments, minimal)
    /\ mpc' = "s2_build"
    /\ UNCHANGED <<step1_ok, step2_ok, bin_gcode, cmd, exit_code, ended, success>>
    /\ UNCHANGED scanvars

\* Removing, creating, extracting or saving raises (other than BadZipFile
\* and outside the try of the process config): nothing catches it.
S2_ExtractRaises ==
    /\ mpc = "s2_extract"
    /\ Crash
    /\ UNCHANGED <<step1_ok, step2_ok, bin_gcode, configs, cmd, success>>
    /\ UNCHANGED scanvars

\* cmd is built from configs.
S2_BuildCmd ==
    /\ mpc = "s2_build"
    /\ cmd' = BuildCmd(configs)
    /\ mpc' = "s2_run"
    /\ UNCHANGED <<step1_ok, step2_ok, bin_gcode, configs, exit_code, ended, success>>
    /\ UNCHANGED scanvars

\* run_command returns True; main calls step 3.
S2_RunOk ==
    /\ mpc = "s2_run"
    /\ \A i \in 1..Len(cmd) : cmd[i] # NONE
    /\ step2_ok' = "True"
    /\ cmd' = <<>>
    /\ configs' = NoConfigs
    /\ mpc' = "step3"
    /\ pc' = "start"
    /\ UNCHANGED <<step1_ok, bin_gcode, exit_code, ended, success>>
    /\ UNCHANGED <<current_z, current_type, bad_layers, has_bad_infill,
                   result, exit, printed, summary, read, checked, violating>>

\* The slicer exits non-zero: run_command returns False.
S2_RunFails ==
    /\ mpc = "s2_run"
    /\ \A i \in 1..Len(cmd) : cmd[i] # NONE
    /\ step2_ok' = "False"
    /\ cmd' = <<>>
    /\ configs' = NoConfigs
    /\ mpc' = "gcode_test"
    /\ UNCHANGED <<step1_ok, bin_gcode, exit_code, ended, success>>
    /\ UNCHANGED scanvars

\* run_command raises: ' '.join(cmd) with None in cmd (TypeError), or
\* subprocess.run when the program is not installed; nothing catches it.
S2_RunRaises ==
    /\ mpc = "s2_run"
    /\ Crash
    /\ UNCHANGED <<step1_ok, step2_ok, bin_gcode, configs, cmd, success>>
    /\ UNCHANGED scanvars

\* Step 2 failed and GCODE_FILE does not exist: sys.exit(1).
GcodeMissing ==
    /\ mpc = "gcode_test"
    /\ bin_gcode' = "False"
    /\ SysExit1
    /\ UNCHANGED <<step1_ok, step2_ok, configs, cmd, success>>
    /\ UNCHANGED scanvars

\* Step 2 failed but GCODE_FILE exists: main calls step 3.
GcodeExists ==
    /\ mpc = "gcode_test"
    /\ bin_gcode' = "True"
    /\ mpc' = "step3"
    /\ pc' = "start"
    /\ UNCHANGED <<step1_ok, step2_ok, configs, cmd, exit_code, ended, success>>
    /\ UNCHANGED <<current_z, current_type, bad_layers, has_bad_infill,
                   result, exit, printed, summary, read, checked, violating>>

\* step_3_analyze_gcode returned False: sys.exit(1).
Step3Fails ==
    /\ mpc = "step3"
    /\ pc = "done"
    /\ result = "False"
    /\ SysExit1
    /\ UNCHANGED <<step1_ok, step2_ok, bin_gcode, configs, cmd, success>>
    /\ UNCHANGED scanvars

\* step_3_analyze_gcode returned True: the success line is printed and main
\* returns.
Step3Passes ==
    /\ mpc = "step3"
    /\ pc = "done"
    /\ result = "True"
    /\ success' = TRUE
    /\ mpc' = "exited"
    /\ exit_code' = "0"
    /\ ended' = "returned"
    /\ UNCHANGED <<step1_ok, step2_ok, bin_gcode, configs, cmd>>
    /\ UNCHANGED scanvars

\* The next line of the file is read while the scan runs as step 3.
ProcessLineMain == ProcessLineFrom(Lines, MaxMainLines)

NextMain ==
    \/ Step1Ok
    \/ Step1Fails
    \/ Step1Raises
    \/ S2_ReturnsNone
    \/ S2_ManualJson
    \/ S2_PrepareConfigs
    \/ S2_ExtractRaises
    \/ S2_BuildCmd
    \/ S2_RunOk
    \/ S2_RunFails
    \/ S2_RunRaises
    \/ GcodeMissing
    \/ GcodeExists
    \/ FileMissing
    \/ OpenFile
    \/ OpenFails
    \/ ProcessLineMain
    \/ ReadFails
    \/ EndOfStream
    \/ Step3Fails
    \/ Step3Passes

SpecMain == InitMain /\ [][NextMain]_vars

TypeOK ==
    /\ pc \in {"idle", "start", "scan", "done"}
    /\ result \in {"none", "True", "False"}
    /\ exit \in {"none", "missing", "error", "failed", "passed"}
    /\ has_bad_infill \in BOOLEAN
    /\ current_z \in Int
    /\ Len(read) <= MaxLines

(***************************************************************************)
(* Vocabulary of the properties.                                           *)
(***************************************************************************)

\* The function returned one of its two verdicts: the stream was read to
\* its end.
Scanned == pc = "done" /\ exit \in {"passed", "failed"}

\* The elements of a sequence.
Range(q) == {q[i] : i \in 1..Len(q)}

\* Number of occurrences of h in the sequence q.
Count(q, h) == Cardinality({i \in 1..Len(q) : q[i] = h})

\* The raw line is a feature declaration that yields the label
\* "Sparse infill".
DeclaresSparse(raw) ==
    /\ StartsWith(Strip(raw), <<";", "T", "Y", "P", "E", ":">>)
    /\ FeatureLabel(Strip(raw)) = SPARSE_INFILL

\* The lines of the alphabet that declare "Sparse infill", and those that
\* are feature declarations at all.
SparseDeclarations == {l \in Lines : DeclaresSparse(l)}
TypeLines ==
    {l \in Lines : StartsWith(Strip(l), <<";", "T", "Y", "P", "E", ":">>)}

\* The line consumed by the step, when the step consumes one.
Consumed == read' # read
LastRead == read'[Len(read')]

ScenarioA == <<L_TypeSolid, L_Z25, L_E1>>
ScenarioB == <<L_TypeSparse, L_Z25, L_E1>>
ScenarioD == <<L_TypeSparse, L_Z25, L_E0>>

(***************************************************************************)
(* Properties.                                                             *)
(***************************************************************************)

\* C1: when a line carrying a token E<v>, v > 0, was consumed while the
\* feature was "Sparse infill" and the height above the threshold, a scan
\* read to its end returns False and that height is in bad_layers; the
\* stream of scenario B returns False with bad_layers = [25.0].
C1_ViolationFailsScan ==
    Scanned =>
        /\ violating # <<>> =>
              result = "False" /\ Range(violating) \subseteq Range(bad_layers)
        /\ read = ScenarioB => result = "False" /\ bad_layers = <<250>>

\* C2: a stream read to its end in which no line declares the label
\* "Sparse infill" returns True with an empty bad_layers, whatever the
\* heights and extrusion amounts.
C2_NoSparseLabelPasses ==
    (\A i \in 1..Len(read) : read[i] \notin SparseDeclarations) =>
        /\ bad_layers = <<>>
        /\ ~has_bad_infill
        /\ Scanned => result = "True"

\* C2 witness: scenario A was read to its end and passed.
C2_Witness ==
    Scanned /\ read = ScenarioA /\ result = "True" /\ current_z = 250

\* C3: has_bad_infill is true exactly when bad_layers is non-empty, and a
\* stream read to its end returns True iff bad_layers is empty.
C3_FlagIffNonEmpty ==
    /\ has_bad_infill <=> bad_layers # <<>>
    /\ Scanned => (result = "True" <=> bad_layers = <<>>)

\* C3 witness: a stream of at least three lines was read to its end and the
\* verdict returned.
C3_Witness ==
    Scanned /\ Len(read) >= 3 /\ result = "True" /\ bad_layers = <<>>

\* C4: a line consumed while the height equals the threshold records
\* nothing, and every recorded height is strictly above the threshold.
C4_ThresholdStrict ==
    [][/\ (Consumed /\ current_z' = Z_THRESHOLD) => bad_layers' = bad_layers
       /\ \A i \in 1..Len(bad_layers') : bad_layers'[i] > Z_THRESHOLD]_vars

\* C4 witness: a positive extrusion was consumed at height 20.0 under
\* "Sparse infill" and nothing was recorded.
C4_Witness ==
    /\ read = <<L_TypeSparse, L_Z20, L_E1>>
    /\ current_type = SPARSE_INFILL
    /\ current_z = Z_THRESHOLD
    /\ bad_layers = <<>>

\* C5: a line without a token E<v> with v > 0 (no extrusion token, zero or
\* negative amount) adds nothing to bad_layers, and the stream of scenario D
\* read to its end returns True.
C5_NoPositiveExtrusionNoEntry ==
    [][/\ (Consumed /\ LastRead \notin PositiveELines) => bad_layers' = bad_layers
       /\ (pc' = "done" /\ exit' \in {"passed", "failed"} /\ read' = ScenarioD)
             => result' = "True"]_vars

\* C5 witness: scenario D was read to its end and passed.
C5_Witness ==
    Scanned /\ read = ScenarioD /\ result = "True" /\ bad_layers = <<>>

\* C6: when two violating lines were consumed at the same height, a scan
\* read to its end has exactly one entry for that height in bad_layers.
C6_OneEntryPerHeight ==
    Scanned =>
        \A h \in Range(violating) :
            Count(violating, h) >= 2 => Count(bad_layers, h) = 1

\* The raw line is a height directive whose numeric payload float rejects:
\* a ";Z:" comment, or a G1 line all of whose Z tokens are rejected.
MalformedHeight(raw) ==
    LET line  == Strip(raw)
        parts == SplitWS(line)
        zs    == {i \in 1..Len(parts) : StartsWith(parts[i], <<"Z">>)}
    IN  \/ /\ StartsWith(line, <<";", "Z", ":">>)
           /\ ~ParseFloat(Split(line, ":")[2]).ok
        \/ /\ StartsWith(line, <<"G", "1">>)
           /\ zs # {}
           /\ \A i \in zs : ~ParseFloat(Tail(parts[i])).ok

MalformedHeightLines == {l \in Lines : MalformedHeight(l)}

\* C7: consuming a height directive with a malformed payload (";Z:abc",
\* "G1 X10 Zoops") leaves current_z, current_type and bad_layers as they
\* were and the scan stays in its loop.
C7_MalformedHeightIgnored ==
    [][(Consumed /\ LastRead \in MalformedHeightLines) =>
          /\ current_z' = current_z
          /\ current_type' = current_type
          /\ bad_layers' = bad_layers
          /\ pc' = "scan"]_vars

\* C7 witness: both malformed directives were consumed after ";Z:25.0", the
\* height is still 25.0 and the next line was processed.
C7_Witness ==
    /\ read = <<L_Z25, L_ZBad, L_G1ZBad, L_TypeSparse>>
    /\ current_z = 250
    /\ current_type = SPARSE_INFILL
    /\ pc = "scan"

\* C8: a step that does not consume a ";TYPE:" line leaves current_type
\* unchanged.
C8_StickyFeature ==
    [][(Consumed /\ LastRead \in TypeLines)
          \/ current_type' = current_type]_vars

\* C8 witness: the label set by the first line is still current after a
\* height comment, an extrusion line and a motion line.
C8_Witness ==
    /\ read = <<L_TypeSolid, L_Z25, L_E1, L_G1ZBad>>
    /\ current_type = FeatureLabel(Strip(L_TypeSolid))

HeightDirective(raw) ==
    LET line  == Strip(raw)
        parts == SplitWS(line)
        zs    == {i \in 1..Len(parts) :
                     /\ StartsWith(parts[i], <<"Z">>)
                     /\ ParseFloat(Tail(parts[i])).ok}
    IN  IF StartsWith(line, <<";", "Z", ":">>)
        THEN ParseFloat(SubSeq(line, 4, Len(line)))
        ELSE IF StartsWith(line, <<"G", "1">>) /\ zs # {}
        THEN ParseFloat(Tail(parts[CHOOSE i \in zs : \A j \in zs : j <= i]))
        ELSE [ok |-> FALSE, val |-> 0]

HeightTable == [l \in Lines |-> HeightDirective(l)]

\* The height of the most recent well-formed height directive of a stream,
\* 0.0 when it has none.
RECURSIVE LastHeight(_)
LastHeight(q) ==
    IF q = <<>> THEN 0
    ELSE IF HeightTable[q[Len(q)]].ok THEN HeightTable[q[Len(q)]].val
    ELSE LastHeight(SubSeq(q, 1, Len(q) - 1))

\* C11: after any prefix of the stream current_z is the value of the most
\* recent well-formed height directive consumed, 0.0 if there was none; a
\* later lower value overwrites an earlier higher one.
C11_LastWriterWinsHeight ==
    current_z = LastHeight(read)

\* C11 witness: 30.0, then 25.0, a malformed comment, then 20.0: the height
\* is the last, lowest value.
C11_Witness ==
    /\ read = <<L_Z30E1, L_Z25, L_ZBad, L_Z20>>
    /\ current_z = 200

\* The remainder of a stripped ";TYPE:" line after the marker.
LabelText(raw) == SubSeq(Strip(raw), 7, Len(Strip(raw)))

LabelTable == [l \in TypeLines |-> LabelText(l)]

\* C13: after a ";TYPE:" line current_type is the whole remainder of the
\* stripped line after the marker, also when the label contains a ":".
C13_LabelVerbatim ==
    (read # <<>> /\ read[Len(read)] \in TypeLines) =>
        current_type = LabelTable[read[Len(read)]]

\* C14: when reading fails inside the loop the function returns False, also
\* when no violation was recorded on the lines read so far.
C14_ReadFailureNeverPasses ==
    [][(pc = "scan" /\ exit' = "error") =>
          (pc' = "done" /\ result' = "False" /\ result' # "True")]_vars

\* C14 witness: the read failed after two lines with nothing recorded.
C14_Witness ==
    /\ pc = "done" /\ exit = "error" /\ result = "False"
    /\ Len(read) = 2 /\ bad_layers = <<>>

\* C12: a line that is both a G1 move with a well-formed Z token and
\* extrusion-bearing reaches the sparse-infill test, and the test is
\* evaluated with current_z at the height that line sets, not at the height
\* in effect before it.
C12_UpdatePrecedesCheck ==
    [][(Consumed /\ LastRead \in PositiveELines /\ HeightTable[LastRead].ok) =>
          /\ Len(checked') = Len(checked) + 1
          /\ checked'[Len(checked')] = HeightTable[LastRead].val
          /\ current_z' = HeightTable[LastRead].val]_vars

\* C12 witness: "G1 Z30.0 E1.0" arrived under "Sparse infill" at height
\* 20.0 and the test was evaluated at 30.0.
C12_Witness ==
    /\ read = <<L_TypeSparse, L_Z20, L_Z30E1>>
    /\ current_type = SPARSE_INFILL
    /\ checked = <<300>>
    /\ current_z = 300

\* The elements of q in order of first occurrence.
RECURSIVE Distinct(_)
Distinct(q) ==
    IF q = <<>> THEN <<>>
    ELSE LET d == Distinct(SubSeq(q, 1, Len(q) - 1)) IN
         IF q[Len(q)] \in Range(d) THEN d ELSE Append(d, q[Len(q)])

IsPrefix(a, b) == Len(a) <= Len(b) /\ SubSeq(b, 1, Len(a)) = a

\* C15: at most 4 FAILURE lines are printed, for the first distinct
\* violating heights in discovery order; the closing message lists at most
\* 10 heights; and once more than 4 distinct violating heights were
\* consumed every one of them is still recorded in bad_layers.
C15_BoundedDiagnostics ==
    /\ Len(printed) <= 4
    /\ IsPrefix(printed, Distinct(violating))
    /\ Len(summary) <= 10
    /\ IsPrefix(summary, Distinct(violating))
    /\ Cardinality(Range(violating)) > 4 =>
          Range(violating) \subseteq Range(bad_layers)

\* C16: step 3 runs only after step 1 returned success; the success line
\* and exit status 0 occur only when step 1 succeeded and step 3 returned
\* True; after step 2 returned False, main exits with status 1 at that point
\* exactly when bin.gcode does not exist and otherwise goes on to step 3.
C16_PipelineOrdering ==
    /\ pc # "idle" => step1_ok = "True"
    /\ (success \/ exit_code = "0") =>
          step1_ok = "True" /\ pc = "done" /\ result = "True"
    /\ (step2_ok = "False" /\ bin_gcode = "False") =>
          exit_code = "1" /\ ended = "sys.exit" /\ pc = "idle"
    /\ (step2_ok = "False" /\ bin_gcode = "True") => pc # "idle"
    /\ (step2_ok = "False" /\ mpc = "exited" /\ pc = "idle") =>
          bin_gcode = "False"

\* C16 witness: step 2 returned False, bin.gcode existed, step 3 ran over a
\* stream and returned True, and main reported success.
C16_Witness ==
    /\ step1_ok = "True" /\ step2_ok = "False" /\ bin_gcode = "True"
    /\ Len(read) = 2 /\ result = "True"
    /\ success /\ exit_code = "0"

\* C17: in cmd every "--load-settings" and "--load-filaments" is followed by
\* a present config path, never by None.
C17_FlagsHavePaths ==
    \A i \in 1..Len(cmd) :
        cmd[i] \in {"--load-settings", "--load-filaments"} =>
            i < Len(cmd) /\ cmd[i + 1] # NONE

====
